---- MODULE Spec2Model ----
(***************************************************************************)
(* OneHotFeaturizer of molencoder/featurizers.py as a state machine.       *)
(*                                                                         *)
(* A Python str is a sequence of code points, a Python list or numpy array *)
(* is a sequence, and Python's 0-based index i is position i + 1 here.     *)
(* The state of one featurizer is its two attributes, charset and          *)
(* pad_length; op, arg and result record the last call made on it, the     *)
(* argument it was given and how it ended.                                 *)
(***************************************************************************)
EXTENDS Integers, Sequences, FiniteSets

\* ---------------------------------------------------------------- bounds

\* A corpus has at most this many strings and characters, counted together.
MaxCorpusSize == 4

\* A corpus the caller turns to after its first one has at most this many
\* strings and characters, counted together.
MaxSecond == 2

\* The corpus of a thread has at most this many strings and characters,
\* counted together.
MaxThreadCorpus == 2

\* pad_length ranges over 1..MaxPad.
MaxPad == 3

\* A charset handed to the constructor has at most this many elements.
MaxCharset == 2

\* An array handed to untransform has at most this many entries.
MaxCells == 6

\* ------------------------------------------------------------ characters

\* The padding character, ' '.
Space == 32

\* The characters of the strings and charsets tried: the tab, the space and
\* the letter C.
Alphabet == {9, Space, 67}

\* The ASCII characters str.strip() removes.
Whitespace == {9, 10, 11, 12, 13, 28, 29, 30, 31, 32}

\* self.charset = None: no sequence of code points has a negative element.
None == << -1 >>

\* ------------------------------------------------------- Python builtins

RECURSIVE SeqsUpTo(_, _)
SeqsUpTo(S, n) ==
    IF n <= 0 THEN {<<>>}
    ELSE LET shorter == SeqsUpTo(S, n - 1)
         IN  shorter \cup {Append(s, x) : s \in {t \in shorter : Len(t) = n - 1}, x \in S}

\* str.ljust(width): pads with spaces on the right, returns the string
\* itself when it is already that long.
Ljust(s, width) ==
    IF Len(s) >= width THEN s
    ELSE s \o [p \in 1..(width - Len(s)) |-> Space]

RECURSIVE LStrip(_)
\* str.lstrip()
LStrip(s) ==
    IF s # <<>> /\ Head(s) \in Whitespace THEN LStrip(Tail(s)) ELSE s

RECURSIVE RStrip(_)
\* str.rstrip()
RStrip(s) ==
    IF s # <<>> /\ s[Len(s)] \in Whitespace
    THEN RStrip(SubSeq(s, 1, Len(s) - 1))
    ELSE s

StripLeft(s) == LStrip(s)

\* str.strip(): removes leading and trailing whitespace.
Strip(s) == RStrip(LStrip(s))

RECURSIVE Sorted(_)
\* sorted(list(s)) of a set of characters: ascending code points.
Sorted(S) ==
    IF S = {} THEN <<>>
    ELSE LET m == CHOOSE x \in S : \A y \in S : x <= y
         IN  <<m>> \o Sorted(S \ {m})

NotFound == -1

RECURSIVE IndexFrom(_, _, _)
\* list.index(c): the linear scan for the first element equal to c;
\* NotFound stands for the ValueError it raises.
IndexFrom(cs, c, i) ==
    IF i >= Len(cs) THEN NotFound
    ELSE IF cs[i + 1] = c THEN i
    ELSE IndexFrom(cs, c, i + 1)

ArgMaxLast(row) ==
    CHOOSE i \in 0..(Len(row) - 1) :
        /\ \A k \in 0..(Len(row) - 1) : row[k + 1] <= row[i + 1]
        /\ \A k \in (i + 1)..(Len(row) - 1) : row[k + 1] < row[i + 1]

RECURSIVE ArgMaxFrom(_, _, _)
ArgMaxFrom(row, i, best) ==
    IF i >= Len(row) THEN best
    ELSE ArgMaxFrom(row, i + 1, IF row[i + 1] > row[best + 1] THEN i ELSE best)

\* np.argmax of a non-empty row: the first occurrence of the maximum.
ArgMax(row) == ArgMaxFrom(row, 1, 0)

\* Whether np.array(rows) of a list of rows is a regular 2-D array.
IsRegular(rows) == \A p, q \in 1..Len(rows) : Len(rows[p]) = Len(rows[q])

\* Whether np.array(ms) of a list of matrices is a regular 3-D array.
IsRegularBatch(ms) ==
    /\ IsRegular(ms)
    /\ \A a, b \in 1..Len(ms) : IsRegular(ms[a] \o ms[b])

NoValue == <<>>

\* How a call ends: it returns a value, or raises exc at the named place.
Return(v) == [kind |-> "return", value |-> v, exc |-> "", at |-> ""]

Raise(exc, at) == [kind |-> "raise", value |-> NoValue, exc |-> exc, at |-> at]

\* ------------------------------------------------------ OneHotFeaturizer

_create_charset_nopad(smiles) ==
    Sorted(UNION {{smiles[i][p] : p \in 1..Len(smiles[i])} : i \in 1..Len(smiles)})

\* _create_charset: the set of the characters of every smile, sorted, after
\* a leading space.
_create_charset(smiles) ==
    LET s == UNION {{smiles[i][p] : p \in 1..Len(smiles[i])} : i \in 1..Len(smiles)}
    IN  <<Space>> \o Sorted(s)

AlwaysCreate(cs, smiles) == _create_charset(smiles)

\* featurize, lines 85-86: the charset is derived only while it is None.
LazyCharset(cs, smiles) ==
    IF cs = None THEN _create_charset(smiles) ELSE cs

\* one_hot_array(i): len(charset) entries, entry i is 1.
one_hot_array(cs, i) ==
    [ix \in 1..Len(cs) |-> IF ix - 1 = i THEN 1 ELSE 0]

IndexOrPad(cs, c) ==
    IF IndexFrom(cs, c, 0) = NotFound THEN 0 ELSE IndexFrom(cs, c, 0)

\* one_hot_index(c) == self.charset.index(c)
one_hot_index(cs, c) == IndexFrom(cs, c, 0)

\* pad_smile(smile) == smile.ljust(self.pad_length)
pad_smile(smile, padlength) == Ljust(smile, padlength)

\* Whether one_hot_encoded(smile) raises: some character of the padded
\* smile is not in the charset.
Unknown(cs, padlength, smile) ==
    \E p \in 1..Len(pad_smile(smile, padlength)) :
        one_hot_index(cs, pad_smile(smile, padlength)[p]) = NotFound

\* one_hot_encoded(smile), when it does not raise: one row per character of
\* the padded smile.
one_hot_encoded(cs, padlength, smile) ==
    LET padded == pad_smile(smile, padlength)
    IN  [p \in 1..Len(padded) |-> one_hot_array(cs, one_hot_index(cs, padded[p]))]

\* The ways featurize(smiles) can end with charset cs already in place.  The
\* list comprehension stops at the first smile that raises.  np.array of
\* matrices with different numbers of rows is an object array on the numpy
\* of the repository's time and a ValueError from numpy 1.24 on.
Encodings(cs, padlength, smiles) ==
    IF \E i \in 1..Len(smiles) : Unknown(cs, padlength, smiles[i])
    THEN {Raise("ValueError", "list.index")}
    ELSE LET ms == [i \in 1..Len(smiles) |-> one_hot_encoded(cs, padlength, smiles[i])]
         IN  IF IsRegularBatch(ms)
             THEN {Return(ms)}
             ELSE {Return(ms), Raise("ValueError", "np.array")}

\* One row of untransform, lines 162-163: the character or the exception.
DecodeRow(cs, row) ==
    IF row = <<>> THEN [ok |-> FALSE, exc |-> "ValueError", at |-> "np.argmax", c |-> 0]
    ELSE IF cs = None THEN [ok |-> FALSE, exc |-> "TypeError", at |-> "charset[oh]", c |-> 0]
    ELSE IF ArgMax(row) >= Len(cs) THEN [ok |-> FALSE, exc |-> "IndexError", at |-> "charset[oh]", c |-> 0]
    ELSE [ok |-> TRUE, exc |-> "", at |-> "", c |-> cs[ArgMax(row) + 1]]

RECURSIVE DecodeRows(_, _, _, _)
\* The inner loop of untransform, lines 160-163, from row j with s so far.
DecodeRows(cs, m, j, s) ==
    IF j >= Len(m) THEN [ok |-> TRUE, exc |-> "", at |-> "", s |-> s]
    ELSE LET r == DecodeRow(cs, m[j + 1])
         IN  IF r.ok THEN DecodeRows(cs, m, j + 1, Append(s, r.c))
             ELSE [ok |-> FALSE, exc |-> r.exc, at |-> r.at, s |-> s]

RECURSIVE DecodeFrom(_, _, _, _)
\* The outer loop of untransform, lines 159-165, from matrix i with z1 so far.
DecodeFrom(cs, z, i, z1) ==
    IF i >= Len(z) THEN Return(z1)
    ELSE LET r == DecodeRows(cs, z[i + 1], 0, <<>>)
         IN  IF r.ok THEN DecodeFrom(cs, z, i + 1, Append(z1, <<Strip(r.s)>>))
             ELSE Raise(r.exc, r.at)

untransform(cs, z) == DecodeFrom(cs, z, 0, <<>>)

\* ----------------------------------------------------------- the inputs

Strings(n) == SeqsUpTo(Alphabet, n)

RECURSIVE CorporaOfSize(_)
\* The lists of strings with at most n strings and characters together.
CorporaOfSize(n) ==
    IF n <= 0 THEN {<<>>}
    ELSE {<<>>} \cup UNION {{<<s>> \o c : c \in CorporaOfSize(n - 1 - Len(s))} : s \in Strings(n - 1)}

Corpora == CorporaOfSize(MaxCorpusSize)

SecondCorpora == CorporaOfSize(MaxSecond)

ThreadCorpora == CorporaOfSize(MaxThreadCorpus)

Charsets == SeqsUpTo(Alphabet, MaxCharset)

PadLengths == 1..MaxPad

Values == {0, 1}

Shapes ==
    {sh \in (0..MaxCells) \X (0..MaxCells) \X (0..MaxCells) : sh[1] * sh[2] * sh[3] <= MaxCells}

\* The arrays of shape (n, r, w) with at most MaxCells entries.
Arrays ==
    UNION {[1..sh[1] -> [1..sh[2] -> [1..sh[3] -> Values]]] : sh \in Shapes}

\* ------------------------------------------------------------ the state

\* charset and pad_length are the featurizer's attributes.  smiles and z are
\* what the caller holds to pass to featurize and to untransform; op and
\* result are the last call made and how it ended.
VARIABLES charset, pad_length, smiles, z, op, result

\* Two threads that call featurize on the one featurizer: tsmiles[t] is the
\* corpus of thread t, pc[t] the statement it is at, ismile[t] and jchar[t]
\* the smile and the character its comprehensions are at, kindex[t] the index
\* one_hot_index returned, rows[t] and mats[t] the rows and matrices built so
\* far, out[t] how its call ended.
VARIABLES tsmiles, pc, ismile, jchar, kindex, rows, mats, out

tvars == <<tsmiles, pc, ismile, jchar, kindex, rows, mats, out>>

vars ==
    <<charset, pad_length, smiles, z, op, result,
      tsmiles, pc, ismile, jchar, kindex, rows, mats, out>>

Threads == {1, 2}

Pending == [kind |-> "pending", value |-> NoValue, exc |-> "", at |-> ""]

\* No thread: the caller is the only one.
NoThreads ==
    /\ tsmiles = [t \in Threads |-> <<>>]
    /\ pc = [t \in Threads |-> "idle"]
    /\ ismile = [t \in Threads |-> 0]
    /\ jchar = [t \in Threads |-> 0]
    /\ kindex = [t \in Threads |-> 0]
    /\ rows = [t \in Threads |-> <<>>]
    /\ mats = [t \in Threads |-> <<>>]
    /\ out = [t \in Threads |-> Pending]

\* __init__(charset, padlength)
__init__(cs, padlength) ==
    /\ charset = cs
    /\ pad_length = padlength
    /\ op = "__init__"
    /\ result = Return(NoValue)

\* featurize(smiles)
Featurize ==
    /\ charset' = LazyCharset(charset, smiles)
    /\ result' \in Encodings(charset', pad_length, smiles)
    /\ op' = "featurize"
    /\ UNCHANGED <<pad_length, smiles, z, tvars>>

\* untransform(z)
Untransform ==
    /\ result' = untransform(charset, z)
    /\ op' = "untransform"
    /\ UNCHANGED <<charset, pad_length, smiles, z, tvars>>

\* untransform(featurize(smiles)): the caller decodes what the featurize
\* call just returned.
UntransformEncoded ==
    /\ op = "featurize"
    /\ result.kind = "return"
    /\ z' = result.value
    /\ result' = untransform(charset, z')
    /\ op' = "untransform"
    /\ UNCHANGED <<charset, pad_length, smiles, tvars>>

\* The caller turns to another corpus and drops the array it held.
NewCorpus ==
    /\ smiles' \in SecondCorpora
    /\ z' = <<>>
    /\ UNCHANGED <<charset, pad_length, op, result, tvars>>

\* A featurizer built with or without a charset, and a caller that encodes
\* one corpus and decodes the encoding.
Init ==
    /\ \E cs \in {None} \cup Charsets, padlength \in PadLengths : __init__(cs, padlength)
    /\ smiles \in Corpora
    /\ z = <<>>
    /\ NoThreads

Next ==
    \/ Featurize
    \/ UntransformEncoded

Spec == Init /\ [][Next]_vars

\* A featurizer built without a charset, and a caller that encodes and
\* decodes one corpus after another.
InitLazy ==
    /\ \E padlength \in PadLengths : __init__(None, padlength)
    /\ smiles \in Corpora
    /\ z = <<>>
    /\ NoThreads

NextLazy ==
    \/ Featurize
    \/ UntransformEncoded
    \/ NewCorpus

SpecLazy == InitLazy /\ [][NextLazy]_vars

\* A featurizer built with or without a charset, and a caller that decodes
\* an array of its own.
InitDecode ==
    /\ \E cs \in {None} \cup Charsets, padlength \in PadLengths : __init__(cs, padlength)
    /\ smiles = <<>>
    /\ z \in Arrays
    /\ NoThreads

NextDecode ==
    Untransform

SpecDecode == InitDecode /\ [][NextDecode]_vars

\* ----------------------------------------------------------- two threads

\* The statements of featurize a thread can be at, one read or write of
\* self.charset each: "check" is the test of line 85, "create" the
\* assignment of line 86, "index" the charset.index(c) of line 115 and
\* "array" the len(self.charset) of line 101, for the character at
\* tsmiles[ismile][jchar] of line 144.

StoreIfUnset(cs, corpus) == IF cs = None THEN _create_charset(corpus) ELSE cs

\* Line 86: what the assignment stores, whatever the charset is by then.
Store(cs, corpus) == _create_charset(corpus)

\* The thread enters the comprehension of line 87, or ends at once on an
\* empty corpus.
Enter(t) ==
    IF tsmiles[t] = <<>>
    THEN /\ pc' = [pc EXCEPT ![t] = "done"]
         /\ out' = [out EXCEPT ![t] = Return(<<>>)]
    ELSE /\ pc' = [pc EXCEPT ![t] = "index"]
         /\ out' = out

\* Line 85: if self.charset is None
Check(t) ==
    /\ pc[t] = "check"
    /\ IF charset = None
       THEN pc' = [pc EXCEPT ![t] = "create"] /\ out' = out
       ELSE Enter(t)
    /\ UNCHANGED <<charset, pad_length, smiles, z, op, result>>
    /\ UNCHANGED <<tsmiles, ismile, jchar, kindex, rows, mats>>

\* Line 86: self.charset = self._create_charset(smiles)
Create(t) ==
    /\ pc[t] = "create"
    /\ charset' = Store(charset, tsmiles[t])
    /\ Enter(t)
    /\ UNCHANGED <<pad_length, smiles, z, op, result>>
    /\ UNCHANGED <<tsmiles, ismile, jchar, kindex, rows, mats>>

\* Line 115, called from line 144: self.charset.index(x)
Index(t) ==
    /\ pc[t] = "index"
    /\ LET x == pad_smile(tsmiles[t][ismile[t] + 1], pad_length)[jchar[t] + 1]
           found == one_hot_index(charset, x)
       IN  IF found = NotFound
           THEN /\ pc' = [pc EXCEPT ![t] = "done"]
                /\ out' = [out EXCEPT ![t] = Raise("ValueError", "list.index")]
                /\ kindex' = kindex
           ELSE /\ pc' = [pc EXCEPT ![t] = "array"]
                /\ out' = out
                /\ kindex' = [kindex EXCEPT ![t] = found]
    /\ UNCHANGED <<charset, pad_length, smiles, z, op, result>>
    /\ UNCHANGED <<tsmiles, ismile, jchar, rows, mats>>

\* Line 101, called from line 144: the row for the character, then the next
\* character, the next smile (np.array of the rows, line 143) or the end of
\* the call (np.array of the matrices, line 87).  np.array of an irregular
\* list is an object array on an older numpy and a ValueError on a newer one.
Array(t) ==
    /\ pc[t] = "array"
    /\ LET padded == pad_smile(tsmiles[t][ismile[t] + 1], pad_length)
           rs == Append(rows[t], one_hot_array(charset, kindex[t]))
           ms == Append(mats[t], rs)
       IN  IF jchar[t] + 1 < Len(padded)
           THEN /\ jchar' = [jchar EXCEPT ![t] = jchar[t] + 1]
                /\ rows' = [rows EXCEPT ![t] = rs]
                /\ pc' = [pc EXCEPT ![t] = "index"]
                /\ UNCHANGED <<ismile, mats, out>>
           ELSE \/ /\ ~IsRegular(rs)
                   /\ pc' = [pc EXCEPT ![t] = "done"]
                   /\ out' = [out EXCEPT ![t] = Raise("ValueError", "np.array")]
                   /\ UNCHANGED <<ismile, jchar, rows, mats>>
                \/ /\ ismile[t] + 1 < Len(tsmiles[t])
                   /\ ismile' = [ismile EXCEPT ![t] = ismile[t] + 1]
                   /\ jchar' = [jchar EXCEPT ![t] = 0]
                   /\ rows' = [rows EXCEPT ![t] = <<>>]
                   /\ mats' = [mats EXCEPT ![t] = ms]
                   /\ pc' = [pc EXCEPT ![t] = "index"]
                   /\ out' = out
                \/ /\ ismile[t] + 1 >= Len(tsmiles[t])
                   /\ pc' = [pc EXCEPT ![t] = "done"]
                   /\ \/ out' = [out EXCEPT ![t] = Return(ms)]
                      \/ /\ ~IsRegularBatch(ms)
                         /\ out' = [out EXCEPT ![t] = Raise("ValueError", "np.array")]
                   /\ UNCHANGED <<ismile, jchar, rows, mats>>
    /\ UNCHANGED <<charset, pad_length, smiles, z, op, result>>
    /\ UNCHANGED <<tsmiles, kindex>>

\* A featurizer built without a charset, and two threads that each call
\* featurize once, on a corpus of their own.
InitThreads ==
    /\ \E padlength \in PadLengths : __init__(None, padlength)
    /\ smiles = <<>>
    /\ z = <<>>
    /\ tsmiles \in [Threads -> ThreadCorpora]
    /\ pc = [t \in Threads |-> "check"]
    /\ ismile = [t \in Threads |-> 0]
    /\ jchar = [t \in Threads |-> 0]
    /\ kindex = [t \in Threads |-> 0]
    /\ rows = [t \in Threads |-> <<>>]
    /\ mats = [t \in Threads |-> <<>>]
    /\ out = [t \in Threads |-> Pending]

NextThreads ==
    \E t \in Threads :
        \/ Check(t)
        \/ Create(t)
        \/ Index(t)
        \/ Array(t)

SpecThreads == InitThreads /\ [][NextThreads]_vars

\* ------------------------------------------------------------ the claims

InCharset(c, cs) == \E q \in 1..Len(cs) : cs[q] = c

BuiltFrom(s, cs) == \A p \in 1..Len(s) : InCharset(s[p], cs)

NoTrailingSpace(s) == s = <<>> \/ s[Len(s)] \notin Whitespace

NoOuterWhitespace(s) == s = <<>> \/ (s[1] \notin Whitespace /\ s[Len(s)] \notin Whitespace)

\* The strings of what untransform returned, each taken out of its
\* one-element list.
Decoded(v) == [i \in 1..Len(v) |-> v[i][1]]

\* The charset is read as the spec's data model has it, with the padding
\* space among its elements.
RoundTripCase ==
    /\ Len(smiles) = 1
    /\ InCharset(Space, charset)
    /\ BuiltFrom(smiles[1], charset)
    /\ Len(smiles[1]) <= pad_length
    /\ NoTrailingSpace(smiles[1])

\* C1 as stated: for a string s of characters of the charset, no longer than
\* pad_length and without trailing spaces (read as: without trailing
\* whitespace), featurize([s]) returns and untransform of what it returned
\* gives back s.
C1_RoundTripAsStated ==
    /\ [](op = "featurize" /\ RoundTripCase => result.kind = "return")
    /\ [][op = "featurize" /\ RoundTripCase /\ op' = "untransform"
            => result'.kind = "return" /\ Decoded(result'.value) = smiles]_vars

RoundTripCaseAmended ==
    /\ Len(smiles) = 1
    /\ BuiltFrom(smiles[1], charset)
    /\ Len(smiles[1]) <= pad_length
    /\ NoOuterWhitespace(smiles[1])
    /\ Len(smiles[1]) < pad_length => InCharset(Space, charset)

\* C1 amended: for a string s of characters of the charset, no longer than
\* pad_length, with neither leading nor trailing whitespace, and a charset
\* that holds the space when s is shorter than pad_length, featurize([s])
\* returns and untransform of what it returned is [[s]].
C1_RoundTrip ==
    /\ [](op = "featurize" /\ RoundTripCaseAmended => result.kind = "return")
    /\ [][op = "featurize" /\ RoundTripCaseAmended /\ op' = "untransform"
            => result' = Return(<<smiles>>)]_vars

C1_Witness ==
    /\ op = "untransform"
    /\ RoundTripCaseAmended
    /\ 1 < Len(smiles[1])
    /\ Len(smiles[1]) < pad_length
    /\ result = Return(<<smiles>>)

RECURSIVE Sum(_)
Sum(row) == IF row = <<>> THEN 0 ELSE Head(row) + Sum(Tail(row))

\* C2: every matrix featurize returns has pad_length rows, each of
\* len(charset) entries that sum to 1, also for a string longer than
\* pad_length.
C2_Shape ==
    op = "featurize" /\ result.kind = "return" =>
        \A i \in 1..Len(result.value) :
            /\ Len(result.value[i]) = pad_length
            /\ \A p \in 1..Len(result.value[i]) :
                /\ Len(result.value[i][p]) = Len(charset)
                /\ Sum(result.value[i][p]) = 1

\* A step that is a call of featurize (NewCorpus keeps op, untransform
\* changes it).
FeaturizeCall == op' = "featurize" /\ smiles' = smiles

\* C3: the first featurize of a featurizer built without a charset sets the
\* charset to the one derived from its corpus; once set, no call changes the
\* charset, and a later featurize of another corpus encodes with it.
C3_Caching ==
    [][/\ charset = None /\ FeaturizeCall => charset' = _create_charset(smiles)
       /\ charset # None => charset' = charset
       /\ charset # None /\ FeaturizeCall
            => result' \in Encodings(charset, pad_length, smiles)]_vars

C3_Witness ==
    /\ op = "featurize"
    /\ result.kind = "return"
    /\ smiles # <<>>
    /\ charset # _create_charset(smiles)

HasUnknown(corpus, cs) ==
    \E i \in 1..Len(corpus) : ~BuiltFrom(corpus[i], cs)

\* C4: with a charset in place, featurize of a corpus with a character that
\* is not in the charset raises the error of the lookup, returns nothing and
\* leaves the charset as it was.
C4_UnknownCharacter ==
    [][charset # None /\ FeaturizeCall /\ HasUnknown(smiles, charset)
        => /\ result' = Raise("ValueError", "list.index")
           /\ charset' = charset]_vars

C4_Witness ==
    /\ op = "featurize"
    /\ result = Raise("ValueError", "list.index")
    /\ Len(smiles) >= 2
    /\ smiles[1] # <<>>
    /\ ~Unknown(charset, pad_length, smiles[1])
    /\ HasUnknown(smiles, charset)

Characters(corpus) ==
    UNION {{corpus[i][p] : p \in 1..Len(corpus[i])} : i \in 1..Len(corpus)}

\* C5: the charset built from a corpus has the space at index 0, holds no
\* character twice, lists the characters after index 0 in ascending order
\* and is the same for every corpus with the same set of characters.
C5_CharsetConstruction ==
    op = "featurize" /\ charset = _create_charset(smiles) =>
        /\ charset[1] = Space
        /\ \A p, q \in 1..Len(charset) : charset[p] = charset[q] => p = q
        /\ \A p, q \in 2..Len(charset) : p < q => charset[p] <= charset[q]
        /\ \A other \in Corpora :
            Characters(other) = Characters(smiles) => _create_charset(other) = charset

\* C6: on a featurizer whose charset is None, untransform of a non-empty
\* batch ends in an error, returns no strings and leaves the charset None.
C6_DecodeWithoutCharset ==
    charset = None /\ op = "untransform" /\ z # <<>> =>
        result.kind = "raise" /\ result.value = NoValue

Malformed(m) ==
    \/ Len(m) # pad_length
    \/ \E j \in 1..Len(m) : Len(m[j]) # Len(charset)

\* C7: untransform of a matrix whose row width is not len(charset) or whose
\* number of rows is not pad_length ends in an error (the charset read as
\* the spec's data model has it, with the padding space among its elements).
C7_MalformedInput ==
    charset # None /\ InCharset(Space, charset) /\ op = "untransform"
        /\ (\E i \in 1..Len(z) : Malformed(z[i])) =>
        result.kind = "raise"

IsMax(row, a) == \A k \in 1..Len(row) : row[k] <= row[a]

\* The lowest 0-based index at which row has its maximal value.
LowestMax(row) ==
    CHOOSE a \in 0..(Len(row) - 1) :
        /\ IsMax(row, a + 1)
        /\ \A k \in 0..(a - 1) : ~IsMax(row, k + 1)

\* C8: the character untransform emits for a row is the charset element at
\* the lowest index holding the row's maximal value, so what it returns for a
\* matrix is the strip of those characters.
C8_TieBreak ==
    op = "untransform" /\ result.kind = "return" =>
        \A i \in 1..Len(z) :
            result.value[i] =
                <<Strip([j \in 1..Len(z[i]) |-> charset[LowestMax(z[i][j]) + 1]])>>

C8_Witness ==
    /\ op = "untransform"
    /\ result.kind = "return"
    /\ \E i \in 1..Len(z) : \E j \in 1..Len(z[i]) :
        /\ \E a, b \in 1..Len(charset) :
            /\ a < b
            /\ b <= Len(z[i][j])
            /\ IsMax(z[i][j], a)
            /\ IsMax(z[i][j], b)
            /\ charset[a] # charset[b]
            /\ charset[a] \notin Whitespace
        /\ Len(result.value[i][1]) = Len(z[i])

OneHotAtZero(row) ==
    /\ row # <<>>
    /\ row[1] = 1
    /\ \A q \in 2..Len(row) : row[q] = 0

\* C10: the first featurize of a featurizer built without a charset never
\* raises the lookup's error: the charset it derives holds the space and
\* every character of the corpus, and every row past the end of a string is
\* one-hot at index 0.
C10_FirstEncode ==
    [][charset = None /\ FeaturizeCall
        => /\ result' # Raise("ValueError", "list.index")
           /\ InCharset(Space, charset')
           /\ \A c \in Characters(smiles) : InCharset(c, charset')
           /\ result'.kind = "return" =>
                \A i \in 1..Len(smiles) :
                    \A p \in (Len(smiles[i]) + 1)..Len(result'.value[i]) :
                        OneHotAtZero(result'.value[i][p])]_vars

C10_Witness ==
    /\ op = "featurize"
    /\ result.kind = "return"
    /\ charset = _create_charset(smiles)
    /\ Space \notin Characters(smiles)
    /\ \E i \in 1..Len(smiles) : 0 < Len(smiles[i]) /\ Len(smiles[i]) < pad_length

\* What the two calls return when thread a's call runs to its end before
\* thread b's call starts.
InOrder(a, b) ==
    /\ out[a] \in Encodings(_create_charset(tsmiles[a]), pad_length, tsmiles[a])
    /\ out[b] \in Encodings(_create_charset(tsmiles[a]), pad_length, tsmiles[b])

\* Both calls have ended, each returned, and no order of the two calls gives
\* this pair of results.
NotSerial ==
    /\ \A t \in Threads : pc[t] = "done" /\ out[t].kind = "return"
    /\ ~InOrder(1, 2)
    /\ ~InOrder(2, 1)

\* C9: the test and the assignment of the charset are two steps: a thread
\* that found the charset unset assigns the charset derived from its own
\* corpus, also when the other thread has assigned one in between; the
\* witness is a pair of results that no order of the two calls gives.
C9_UnsafeLazyInit ==
    [][\A t \in Threads :
        pc[t] = "create" /\ pc'[t] # "create" => charset' = _create_charset(tsmiles[t])]_vars

C9_Witness ==
    /\ NotSerial
    /\ \A t \in Threads : \E p \in 1..Len(tsmiles[t]) : tsmiles[t][p] # <<>>

====
